---- MODULE Spec2Model ----
(***************************************************************************)
(* Video processing pipeline of the video service.                         *)
(*                                                                         *)
(* One video is followed from the upload handler (VideoController.         *)
(* upload_video) through VideoProcessingService.process_video, which is    *)
(* wrapped by the retry decorator, down to Video.add_variant.  Each action *)
(* is one run of the coroutine between two points where it can be          *)
(* suspended, or one synchronous call inside such a run.                   *)
(*                                                                         *)
(* Video.update_status and StorageService.cleanup_failed_upload are called *)
(* by process_video but are defined nowhere in the repository; they are    *)
(* modelled from the specification (update_status assigns the status,      *)
(* cleanup is best effort and may raise).  Calls through injected          *)
(* collaborators are taken to honour the interface process_video is        *)
(* written against (the awaited upload returns (success, error, url)).     *)
(***************************************************************************)
EXTENDS Integers, Sequences, FiniteSets, TLC

VARIABLES
    file_content,        \* the uploaded bytes, by what the gates see in them
    status,              \* Video.status
    variants,            \* Video.variants
    processing_history,  \* Video.processing_history: key -> time of writing
    processing_metrics,  \* VideoProcessingService._processing_metrics[video_id]
    url_cache,           \* StorageService._url_cache (variant keys stored)
    pc,                  \* where the process_video task stands
    attempt,             \* retry wrapper of process_video: loop variable
    gen_attempt,         \* retry wrapper of generate_variant: loop variable
    qi,                  \* position of the for loop over VARIANT_CONFIGS
    is_valid,            \* process_video local: result of validate_format
    is_safe,             \* process_video local: result of scan_security
    exc,                 \* the exception process_video is handling
    last_exception,      \* retry wrapper of process_video: last_exception
    validate_calls,      \* invocations of validate_format in this call
    scan_calls,          \* invocations of scan_security in this call
    gen_calls,           \* invocations of generate_variant's body, per quality
    upload_calls,        \* invocations of upload_variant, per quality
    cleanup_calls,       \* invocations of cleanup_failed_upload
    handler,             \* where upload_video stands
    response_status,     \* the status upload_video returned
    unsafe_reported,     \* history: scan_security returned not safe
    scan_result,         \* scan_security local: what the scanner answered
    log_failures,        \* logger calls of the pipeline that raised
    other,               \* a second process_video call on the same video:
                         \* its wrapper and coroutine locals while suspended
    current,             \* which of the two calls pc and the locals belong to
    monitor_result,      \* what the last monitor_processing call returned
    monitor_seen,        \* history: the progress record at that call
    error_msg,           \* process_video local: the reason validate_format gave
    probe_calls,         \* ffprobe subprocesses started in this call
    probe_result,        \* validate_format: how the probe of this attempt ended
    ann_store,           \* AnnotationRepository: the annotations collection
    ann_cache,           \* AnnotationService._cache (its keys)
    ann_last,            \* what the last annotation call did and how it ended
    video_annotations,   \* Video.annotations (the timestamps)
    db_video,            \* VideoRepository: the stored document of the video
    repo_cache,          \* VideoRepository._cache: the documents cached for the video
    retry_config,        \* retry: the config the decorator was given
    retry_pc,            \* retry wrapper: where a call of the wrapped function stands
    retry_attempt,       \* retry wrapper: attempt, the loop variable
    retry_outcomes,      \* how each invocation of the wrapped function ended
    retry_last,          \* retry wrapper: last_exception
    retry_slept,         \* the delays handed to asyncio.sleep, in order
    retry_result,        \* what the wrapper returned or raised
    active_jobs,         \* ACTIVE_PROCESSING_JOBS: the gauge of each quality
    tracking,            \* track_processing_duration blocks entered and not left, per quality
    track_last,          \* how the last track_active_jobs call ended
    get_tasks,           \* VideoRepository.get_by_id: the calls in progress
    write_pc,            \* VideoRepository: where the writing call stands
    write_count,         \* VideoRepository: the writes applied so far
    stored_keys,         \* the storage keys put_object has stored in the bucket
    cached_keys,         \* StorageService._url_cache: the storage keys it holds
    upload_last          \* how the last upload_video or upload_variant call ended

pipeline_vars ==
    <<file_content, status, variants, processing_history,
      processing_metrics, url_cache, pc, attempt, gen_attempt, qi,
      is_valid, is_safe, exc, last_exception, validate_calls, scan_calls,
      gen_calls, upload_calls, cleanup_calls, handler, response_status,
      unsafe_reported, scan_result, log_failures, other, current,
      monitor_result, monitor_seen, error_msg, probe_calls, probe_result>>

annotation_vars == <<ann_store, ann_cache, ann_last, video_annotations>>

repository_vars == <<db_video, repo_cache>>

retry_vars ==
    <<retry_config, retry_pc, retry_attempt, retry_outcomes, retry_last,
      retry_slept, retry_result>>

metrics_vars == <<active_jobs, tracking, track_last>>

repo_task_vars == <<get_tasks, write_pc, write_count>>

storage_vars == <<stored_keys, cached_keys, upload_last>>

utility_vars == <<retry_vars, metrics_vars, repo_task_vars, storage_vars>>

vars == <<pipeline_vars, annotation_vars, repository_vars, utility_vars>>

----------------------------------------------------------------------------
(* Program constants *)

VIDEO_STATUS ==
    {"pending", "scanning", "processing", "converting", "ready", "failed"}

VIDEO_VARIANTS ==
    {"original", "hd_1080p", "sd_720p", "mobile_480p", "thumbnail"}

SUPPORTED_MIME_TYPES ==
    {"video/mp4", "video/quicktime", "video/x-msvideo", "video/x-matroska"}

\* VARIANT_CONFIGS, in the order its items() are iterated
VARIANT_CONFIGS == <<"hd", "sd", "mobile">>

ConfiguredQualities == {VARIANT_CONFIGS[i] : i \in 1..Len(VARIANT_CONFIGS)}

\* RETRY_CONFIG['max_attempts']
max_attempts == 3

\* Longest variants list built by direct Video.add_variant calls
MaxVariants == 3

Terminal == {"ready", "failed"}

\* MIME types magic.from_buffer reports for the inputs considered
\* (application/x-empty is what it reports for an empty buffer)
MimeTypes == {"video/mp4", "application/pdf", "application/x-empty"}

\* The upload is the empty byte buffer
IsEmpty(content) == content.mime = "application/x-empty"

Qualities == VIDEO_VARIANTS \cup ConfiguredQualities

\* RETRY_CONFIG
RETRY_CONFIG == [max_attempts |-> max_attempts, backoff_factor |-> 2,
                 initial_delay |-> 1]

\* Largest max_attempts among the configs the decorator is tried with
MaxRetryAttempts == 3

\* The configs the decorator is tried with; RETRY_CONFIG is one of them
RetryConfigs ==
    [max_attempts : 1..MaxRetryAttempts, backoff_factor : {1, 2, 3},
     initial_delay : {1, 2}]

\* How one invocation of a wrapped function can end: it returns, or it
\* raises one of two exceptions
InvocationOutcomes == {"returned", "ValueError", "OSError"}

\* The wrapper has neither returned nor raised.  A returned result is
\* named by the number of the invocation that produced it
NoResult == [kind |-> "none", exception |-> "None", invocation |-> 0]

\* VideoMetrics._valid_qualities
valid_qualities == {"HD", "SD", "MOBILE"}

\* The quality labels callers pass to VideoMetrics
MetricQualities == valid_qualities \cup {"annotation_creation"}

\* Most track_processing_duration blocks of one quality open at a time
MaxTracking == 2

\* Largest step of a track_active_jobs call, and the changes callers pass
MaxChange == 2

Changes == (-MaxChange)..MaxChange

\* Largest value the gauge of a quality is driven to
MaxActiveJobs == 2

\* The concurrent callers of VideoRepository.get_by_id for the video
Readers == {"r1", "r2"}

\* Most writes the writer applies
MaxWrites == 2

\* A get_by_id call that was not made.  doc holds the document the call
\* has in hand; fresh tells that the call began after the last write had
\* completed and that no write was applied since
NoGet == [pc |-> "idle", doc |-> {}, fresh |-> FALSE]

\* StorageService._max_retries values the upload loop is tried with
MaxUploadRetries == 2

\* No upload call was made yet
NoUpload ==
    [key |-> "none", outcome |-> "none", success |-> FALSE, error |-> "",
     url |-> "None"]

\* An upload call returned (success, error, url) for the storage key
UploadReturned(key, success, error, url) ==
    [key |-> key, outcome |-> "returned", success |-> success,
     error |-> error, url |-> url]

\* An upload call raised
UploadRaised(key) ==
    [key |-> key, outcome |-> "raised", success |-> FALSE, error |-> "",
     url |-> "None"]

\* ANNOTATION_TYPES
ANNOTATION_TYPES == {"drawing", "voice-over"}

\* stop_after_attempt(3) of the retry around create_drawing_annotation
stop_after_attempt == 3

\* Identifiers the repository hands out, and the users who call
AnnIds == {"a1", "a2"}

Users == {"user-one", "user-two"}

\* metadata.duration of the video, and the timestamps callers pass
VideoDuration == 10

Timestamps == {-1, 0, VideoDuration, VideoDuration + 1}

\* Longest annotations list built by Video.add_annotation calls
MaxAnnotations == 2

----------------------------------------------------------------------------
(* Helpers *)

\* No annotation call was made yet
NoCall ==
    [op |-> "none", outcome |-> "none", cause |-> "none",
     repo_delete |-> FALSE, file_delete |-> FALSE,
     annotation_id |-> "none", user_id |-> "none"]

\* An annotation call ended: how, and what it invoked on the way
Ended(op, outcome, cause, repo_delete, file_delete) ==
    [op |-> op, outcome |-> outcome, cause |-> cause,
     repo_delete |-> repo_delete, file_delete |-> file_delete,
     annotation_id |-> "none", user_id |-> "none"]

\* A delete_annotation(annotation_id, user_id) call ended
DeleteEnded(annotation_id, user_id, outcome, cause, repo_delete, file_delete) ==
    [Ended("delete", outcome, cause, repo_delete, file_delete)
       EXCEPT !.annotation_id = annotation_id, !.user_id = user_id]

\* AnnotationRepository.create: it returns the id, or the driver raises
RepoCreateOutcomes == {"created", "TimeoutError", "DatabaseError"}

\* VideoRepository.add_variant: the document after $push of the variant
repo_add_variant(doc, variant_data) ==
    [doc EXCEPT !.variants = Append(@, variant_data)]

\* VideoRepository.update_status: the document after $set of the status
repo_update_status(doc, new_status) == [doc EXCEPT !.status = new_status]

\* Video.update_status(new_status)
update_status(new_status) ==
    IF new_status \in VIDEO_STATUS THEN new_status ELSE status

\* StorageService.upload_variant: the CDN URL of a stored variant
cdn_url(quality) == "https://cdn/videos/v/variants/" \o quality \o ".mp4"

\* Faulty variant of add_variant_accepts: configured profile names pass too
add_variant_accepts_configured(quality) ==
    quality \in VIDEO_VARIANTS \cup ConfiguredQualities

\* Video.add_variant: the qualities it accepts
add_variant_accepts(quality) == quality \in VIDEO_VARIANTS

\* Faulty variant of add_variant: an earlier entry of the quality is dropped
add_variant_dedups(quality, url) ==
    LET Keep(v) == v.quality # quality
    IN  Append(SelectSeq(variants, Keep), [quality |-> quality, url |-> url])

\* Video.add_variant: the list after appending the variant
add_variant(quality, url) ==
    Append(variants, [quality |-> quality, url |-> url])

\* Video.add_variant: the key it writes in processing_history
variant_added_key(quality) == "variant_" \o quality \o "_added"

\* Video.add_variant: the history after processing_history[key] = {...};
\* the timestamp of the entry is rendered by the number of the call
add_variant_history(quality) ==
    [k \in DOMAIN processing_history \cup {variant_added_key(quality)} |->
        IF k = variant_added_key(quality)
        THEN Len(variants) + 1
        ELSE processing_history[k]]

\* StorageService.cleanup_failed_upload: best effort, it returns or raises
cleanup_failed_upload == {"returned", "raised"}

\* process_video, except block entered: update_status('failed'); the error
\* log and the cleanup follow
EnterFailure(e) ==
    /\ status' = update_status("failed")
    /\ exc' = e
    /\ pc' = "handling"

ZeroCalls == [q \in ConfiguredQualities |-> 0]

\* validate_format: how the ffprobe subprocess can end for the content: it
\* cannot be started or fed ("raised"), or it exits with a return code that
\* is 0 ("ok") or not ("nonzero")
ProbeOutcomes ==
    {"raised"} \cup (IF file_content.corrupt THEN {"nonzero"} ELSE {"ok"})

\* validate_format: the reason it returns behind the probe
probe_reason(outcome) ==
    CASE outcome = "ok" -> ""
      [] outcome = "nonzero" -> "Invalid video format"
      [] OTHER -> "Format validation failed"

\* What virus_scanner.scan_bytes can answer for the content: it raises, or
\* it returns a result whose malware_detected is set ("infected"), one of a
\* completed scan that found nothing ("clean"), or one of a scan that did
\* not complete and carries no malware_detected ("inconclusive")
ScanOutcomes ==
    {"raised", "inconclusive"}
        \cup (IF file_content.malware THEN {"infected"} ELSE {"clean"})

\* scan_security: the safe flag it returns.  Only an exception inside the
\* try block or a truthy malware_detected make it False
scan_security(outcome, log_raised) ==
    ~(outcome = "raised" \/ log_raised \/ outcome = "infected")

\* Faulty variant of monitor_processing: a record without a 'status' entry
\* is reported like a missing one
monitor_processing_needs_status ==
    CASE processing_metrics = "absent" -> "not_found"
      [] processing_metrics = "completed" -> "completed"
      [] OTHER -> "not_found"

\* VideoProcessingService.monitor_processing: the status it reports
monitor_processing ==
    CASE processing_metrics = "absent" -> "not_found"
      [] processing_metrics = "completed" -> "completed"
      [] OTHER -> "processing"

\* VideoProcessingService.monitor_processing: the dictionary it returns.
\* completed_variants and current_stage are written nowhere, so the count
\* is 0 and the stage None; end_time exists once the record is completed
monitor_report ==
    IF processing_metrics = "absent"
    THEN [status |-> "not_found", has_processing_time |-> FALSE,
          variants_completed |-> 0, current_stage |-> "None"]
    ELSE [status |-> monitor_processing,
          has_processing_time |-> processing_metrics = "completed",
          variants_completed |-> 0, current_stage |-> "None"]

\* The wrapper and coroutine locals of a process_video call
Locals ==
    [pc |-> pc, attempt |-> attempt, gen_attempt |-> gen_attempt, qi |-> qi,
     is_valid |-> is_valid, is_safe |-> is_safe, exc |-> exc,
     last_exception |-> last_exception, error_msg |-> error_msg,
     probe_result |-> probe_result]

\* The locals of a call that was not made
NotCalled ==
    [pc |-> "idle", attempt |-> 0, gen_attempt |-> 0, qi |-> 1,
     is_valid |-> FALSE, is_safe |-> FALSE, exc |-> "none",
     last_exception |-> "none", error_msg |-> "none",
     probe_result |-> "none"]

----------------------------------------------------------------------------
Init ==
    /\ file_content \in [mime : MimeTypes, corrupt : BOOLEAN, malware : BOOLEAN]
    /\ IsEmpty(file_content) => (file_content.corrupt /\ ~file_content.malware)
    /\ status = "pending"
    /\ variants = <<>>
    /\ processing_history = [k \in {"upload_started", "file_validation"} |-> 0]
    /\ processing_metrics = "absent"
    /\ url_cache = {}
    /\ pc = "idle"
    /\ attempt = 0
    /\ gen_attempt = 0
    /\ qi = 1
    /\ is_valid = FALSE
    /\ is_safe = FALSE
    /\ exc = "none"
    /\ last_exception = "none"
    /\ validate_calls = 0
    /\ scan_calls = 0
    /\ gen_calls = ZeroCalls
    /\ upload_calls = ZeroCalls
    /\ cleanup_calls = 0
    /\ handler = "init"
    /\ response_status = "none"
    /\ unsafe_reported = FALSE
    /\ scan_result = "none"
    /\ log_failures = 0
    /\ other = NotCalled
    /\ current = 1
    /\ monitor_result = "none"
    /\ monitor_seen = "none"
    /\ error_msg = "none"
    /\ probe_calls = 0
    /\ probe_result = "none"
    /\ ann_store = {}
    /\ ann_cache = {}
    /\ ann_last = NoCall
    /\ video_annotations = <<>>
    /\ db_video = [status |-> "pending", variants |-> <<>>]
    /\ repo_cache = {}
    /\ retry_config = RETRY_CONFIG
    /\ retry_pc = "idle"
    /\ retry_attempt = 0
    /\ retry_outcomes = <<>>
    /\ retry_last = "None"
    /\ retry_slept = <<>>
    /\ retry_result = NoResult
    /\ active_jobs = [q \in valid_qualities |-> 0]
    /\ tracking = [q \in valid_qualities |-> 0]
    /\ track_last = "none"
    /\ get_tasks = [r \in Readers |-> NoGet]
    /\ write_pc = "idle"
    /\ write_count = 0
    /\ stored_keys = {}
    /\ cached_keys = {}
    /\ upload_last = NoUpload

----------------------------------------------------------------------------
(* VideoController.upload_video *)

\* upload of the original, then create_task(process_video) and wait_for
HandlerStart ==
    /\ handler = "init"
    /\ \E upload_success \in BOOLEAN :
         IF upload_success
         THEN /\ handler' = "waiting"
              /\ pc' = "begin"
         ELSE /\ handler' = "error"
              /\ pc' = pc
    /\ UNCHANGED <<annotation_vars, repository_vars, utility_vars, file_content, monitor_result, monitor_seen,
                   error_msg, probe_calls, probe_result,
                   other, current, scan_result, log_failures,
                   unsafe_reported, status, variants,
                   processing_history,
                   processing_metrics, url_cache, attempt, gen_attempt, qi,
                   is_valid, is_safe, exc, last_exception, validate_calls,
                   scan_calls, gen_calls, upload_calls, cleanup_calls,
                   response_status>>

\* The points where the process_video task is suspended in an await
SuspensionPoints == {"probe", "gen_sleep", "upload", "cleanup", "sleep"}

\* asyncio.wait_for times out: it cancels the task, the handler logs a
\* warning and returns the response with the video's current status.
\* CancelledError is not an Exception: no except block of the task runs.
HandlerTimeout ==
    /\ handler = "waiting"
    /\ pc \in SuspensionPoints
    /\ pc' = "cancelled"
    /\ handler' = "timed_out"
    /\ response_status' = status
    /\ UNCHANGED <<annotation_vars, repository_vars, utility_vars, file_content, monitor_result, monitor_seen,
                   error_msg, probe_calls, probe_result,
                   other, current, scan_result, log_failures,
                   unsafe_reported, status, variants,
                   processing_history,
                   processing_metrics, url_cache, attempt, gen_attempt, qi,
                   is_valid, is_safe, exc, last_exception, validate_calls,
                   scan_calls, gen_calls, upload_calls, cleanup_calls>>

\* The task finished within the wait: the response, or HTTP 500 when
\* process_video raised
HandlerFinish ==
    /\ handler = "waiting"
    /\ pc \in {"done", "raised"}
    /\ IF pc = "done"
       THEN /\ handler' = "returned"
            /\ response_status' = status
       ELSE /\ handler' = "error"
            /\ response_status' = response_status
    /\ UNCHANGED <<annotation_vars, repository_vars, utility_vars, file_content, monitor_result, monitor_seen,
                   error_msg, probe_calls, probe_result,
                   other, current, scan_result, log_failures,
                   unsafe_reported, status, variants,
                   processing_history,
                   processing_metrics, url_cache, pc, attempt, gen_attempt, qi,
                   is_valid, is_safe, exc, last_exception, validate_calls,
                   scan_calls, gen_calls, upload_calls, cleanup_calls>>

----------------------------------------------------------------------------
(* VideoProcessingService.process_video, one attempt of the retry wrapper *)

\* The progress record is reset and the status set to scanning
BeginAttempt ==
    /\ pc = "begin"
    /\ processing_metrics' = "started"
    /\ status' = update_status("scanning")
    /\ is_valid' = FALSE
    /\ is_safe' = FALSE
    /\ error_msg' = "none"
    /\ probe_result' = "none"
    /\ pc' = "validate"
    /\ UNCHANGED <<annotation_vars, repository_vars, utility_vars, file_content, monitor_result, monitor_seen, probe_calls,
                   other, current, scan_result, log_failures,
                   unsafe_reported, variants,
                   processing_history, url_cache,
                   attempt, gen_attempt, qi, exc, last_exception,
                   validate_calls, scan_calls, gen_calls, upload_calls,
                   cleanup_calls, handler, response_status>>

\* Faulty variant of ValidateMime: the allow-list is not consulted
ValidateMime_SkipsAllowList ==
    /\ pc = "validate"
    /\ validate_calls' = validate_calls + 1
    /\ probe_calls' = probe_calls + 1
    /\ pc' = "probe"
    /\ UNCHANGED <<status, exc, error_msg>>
    /\ UNCHANGED <<annotation_vars, repository_vars, utility_vars, file_content, monitor_result, monitor_seen,
                   other, current, scan_result, log_failures,
                   unsafe_reported, variants, processing_history,
                   processing_metrics, url_cache, attempt, gen_attempt, qi,
                   is_valid, is_safe, probe_result, last_exception, scan_calls, gen_calls,
                   upload_calls, cleanup_calls, handler, response_status>>

\* validate_format up to the probe: the MIME type of the first 2048 bytes
\* is tested against the allow-list, then ffprobe is started
ValidateMime ==
    /\ pc = "validate"
    /\ validate_calls' = validate_calls + 1
    /\ IF file_content.mime \notin SUPPORTED_MIME_TYPES
       THEN /\ error_msg' = "Unsupported MIME type"
            /\ probe_calls' = probe_calls
            /\ EnterFailure("validation")
       ELSE /\ probe_calls' = probe_calls + 1
            /\ pc' = "probe"
            /\ UNCHANGED <<status, exc, error_msg>>
    /\ UNCHANGED <<annotation_vars, repository_vars, utility_vars, file_content, monitor_result, monitor_seen,
                   other, current, scan_result, log_failures,
                   unsafe_reported, variants, processing_history,
                   processing_metrics, url_cache, attempt, gen_attempt, qi,
                   is_valid, is_safe, probe_result, last_exception, scan_calls, gen_calls,
                   upload_calls, cleanup_calls, handler, response_status>>

\* Faulty variant of ProbeReturn: a failed probe does not stop the pipeline
ProbeReturn_IgnoresFailure ==
    /\ pc = "probe"
    /\ \E outcome \in ProbeOutcomes :
         /\ probe_result' = outcome
         /\ error_msg' = probe_reason(outcome)
         /\ is_valid' = (outcome = "ok")
    /\ pc' = "scan"
    /\ UNCHANGED <<status, exc>>
    /\ UNCHANGED <<annotation_vars, repository_vars, utility_vars, file_content, monitor_result, monitor_seen,
                   other, current, scan_result, log_failures,
                   unsafe_reported, variants, processing_history,
                   processing_metrics, url_cache, attempt, gen_attempt, qi,
                   is_safe, validate_calls, probe_calls, last_exception, scan_calls, gen_calls,
                   upload_calls, cleanup_calls, handler, response_status>>

\* validate_format: ffprobe returned, or starting it raised; process_video
\* raises when the answer is not valid
ProbeReturn ==
    /\ pc = "probe"
    /\ \E outcome \in ProbeOutcomes :
         /\ probe_result' = outcome
         /\ error_msg' = probe_reason(outcome)
         /\ is_valid' = (outcome = "ok")
         /\ IF outcome # "ok"
            THEN EnterFailure("validation")
            ELSE /\ pc' = "scan"
                 /\ UNCHANGED <<status, exc>>
    /\ UNCHANGED <<annotation_vars, repository_vars, utility_vars, file_content, monitor_result, monitor_seen,
                   other, current, scan_result, log_failures,
                   unsafe_reported, variants, processing_history,
                   processing_metrics, url_cache, attempt, gen_attempt, qi,
                   is_safe, validate_calls, probe_calls, last_exception, scan_calls, gen_calls,
                   upload_calls, cleanup_calls, handler, response_status>>

\* scan_security: the scan, the log call behind it (not reached when the
\* scan raised), the malware_detected test; and on a safe result
\* update_status('processing')
ScanSecurity ==
    /\ pc = "scan"
    /\ scan_calls' = scan_calls + 1
    /\ \E outcome \in ScanOutcomes, log_raised \in BOOLEAN :
         /\ outcome = "raised" => ~log_raised
         /\ scan_result' = outcome
         /\ log_failures' = log_failures + (IF log_raised THEN 1 ELSE 0)
         /\ is_safe' = scan_security(outcome, log_raised)
         /\ IF ~scan_security(outcome, log_raised)
            THEN /\ EnterFailure("security")
                 /\ unsafe_reported' = TRUE
                 /\ UNCHANGED <<qi, gen_attempt>>
            ELSE /\ unsafe_reported' = unsafe_reported
                 /\ status' = update_status("processing")
                 /\ qi' = 1
                 /\ gen_attempt' = 0
                 /\ pc' = "generate"
                 /\ exc' = exc
    /\ UNCHANGED <<annotation_vars, repository_vars, utility_vars, file_content, monitor_result, monitor_seen,
                   error_msg, probe_calls, probe_result,
                   other, current,
                   variants, processing_history,
                   processing_metrics, url_cache, attempt, is_valid,
                   last_exception, validate_calls, gen_calls, upload_calls,
                   cleanup_calls, handler, response_status>>

\* generate_variant's body under its own retry wrapper: one invocation
GenerateVariant ==
    /\ pc = "generate"
    /\ gen_calls' = [gen_calls EXCEPT ![VARIANT_CONFIGS[qi]] = @ + 1]
    /\ \E transcode_ok \in BOOLEAN :
         pc' = IF transcode_ok THEN "upload" ELSE "gen_sleep"
    /\ UNCHANGED <<annotation_vars, repository_vars, utility_vars, file_content, monitor_result, monitor_seen,
                   error_msg, probe_calls, probe_result,
                   other, current, scan_result, log_failures,
                   unsafe_reported, status, variants,
                   processing_history,
                   processing_metrics, url_cache, attempt, gen_attempt, qi,
                   is_valid, is_safe, exc, last_exception, validate_calls,
                   scan_calls, upload_calls, cleanup_calls, handler,
                   response_status>>

\* retry wrapper of generate_variant: the sleep after a failed invocation
\* ends; the loop goes on or, exhausted, raises into process_video
GenerateBackoff ==
    /\ pc = "gen_sleep"
    /\ IF gen_attempt + 1 < max_attempts
       THEN /\ gen_attempt' = gen_attempt + 1
            /\ pc' = "generate"
            /\ UNCHANGED <<status, exc>>
       ELSE /\ gen_attempt' = 0
            /\ EnterFailure("transcode")
    /\ UNCHANGED <<annotation_vars, repository_vars, utility_vars, file_content, monitor_result, monitor_seen,
                   error_msg, probe_calls, probe_result,
                   other, current, scan_result, log_failures,
                   unsafe_reported, variants,
                   processing_history,
                   processing_metrics, url_cache, attempt, qi, is_valid,
                   is_safe, last_exception, validate_calls, scan_calls,
                   gen_calls, upload_calls, cleanup_calls, handler,
                   response_status>>

\* Faulty variant of UploadReturn: ready is declared behind the first
\* stored variant instead of behind the loop
UploadReturn_ReadyAfterFirst ==
    /\ pc = "upload"
    /\ LET quality == VARIANT_CONFIGS[qi] IN
       /\ upload_calls' = [upload_calls EXCEPT ![quality] = @ + 1]
       /\ \E success \in BOOLEAN :
            IF ~success
            THEN /\ EnterFailure("upload")
                 /\ url_cache' = url_cache
            ELSE /\ url_cache' = url_cache \cup {quality}
                 /\ status' = update_status("ready")
                 /\ pc' = "done"
                 /\ exc' = exc
    /\ UNCHANGED <<annotation_vars, repository_vars, utility_vars, file_content, monitor_result, monitor_seen,
                   error_msg, probe_calls, probe_result,
                   other, current, scan_result, unsafe_reported,
                   attempt, is_valid, is_safe, last_exception, validate_calls,
                   scan_calls, gen_calls, cleanup_calls, handler,
                   response_status, variants, processing_history, qi,
                   gen_attempt, processing_metrics, log_failures>>

\* process_video after the awaited upload_variant: a failed upload raises;
\* otherwise add_variant, then the next quality or, behind the last one,
\* update_status('ready'), the completion record and the completion log,
\* whose exception is caught by the except block like any other
UploadReturn ==
    /\ pc = "upload"
    /\ LET quality == VARIANT_CONFIGS[qi] IN
       /\ upload_calls' = [upload_calls EXCEPT ![quality] = @ + 1]
       /\ \E success \in BOOLEAN, log_raised \in BOOLEAN :
            IF ~success
            THEN /\ EnterFailure("upload")
                 /\ UNCHANGED <<url_cache, variants, processing_history, qi,
                                gen_attempt, processing_metrics,
                                log_failures>>
            ELSE /\ url_cache' = url_cache \cup {quality}
                 /\ IF ~add_variant_accepts(quality)
                    THEN /\ EnterFailure("variant")
                         /\ UNCHANGED <<variants, processing_history, qi,
                                        gen_attempt, processing_metrics,
                                        log_failures>>
                    ELSE /\ variants' = add_variant(quality, cdn_url(quality))
                         /\ processing_history' = add_variant_history(quality)
                         /\ gen_attempt' = 0
                         /\ IF qi < Len(VARIANT_CONFIGS)
                            THEN /\ qi' = qi + 1
                                 /\ pc' = "generate"
                                 /\ UNCHANGED <<status, exc,
                                                processing_metrics,
                                                log_failures>>
                            ELSE /\ qi' = qi
                                 /\ processing_metrics' = "completed"
                                 /\ IF log_raised
                                    THEN /\ EnterFailure("log")
                                         /\ log_failures' = log_failures + 1
                                    ELSE /\ status' = update_status("ready")
                                         /\ pc' = "done"
                                         /\ UNCHANGED <<exc, log_failures>>
    /\ UNCHANGED <<annotation_vars, repository_vars, utility_vars, file_content, monitor_result, monitor_seen,
                   error_msg, probe_calls, probe_result,
                   other, current, scan_result, unsafe_reported,
                   attempt, is_valid, is_safe, last_exception, validate_calls,
                   scan_calls, gen_calls, cleanup_calls, handler,
                   response_status>>

\* process_video, except block: logger.error, then the await of
\* cleanup_failed_upload begins; when the logger raises, its exception
\* leaves process_video at once and the retry wrapper records it
LogProcessingFailed ==
    /\ pc = "handling"
    /\ \E log_raised \in BOOLEAN :
         IF log_raised
         THEN /\ log_failures' = log_failures + 1
              /\ last_exception' = "log"
              /\ exc' = "none"
              /\ pc' = "sleep"
         ELSE /\ pc' = "cleanup"
              /\ UNCHANGED <<log_failures, last_exception, exc>>
    /\ UNCHANGED <<annotation_vars, repository_vars, utility_vars, file_content, monitor_result, monitor_seen,
                   error_msg, probe_calls, probe_result,
                   other, current, scan_result, unsafe_reported,
                   status, variants, processing_history, processing_metrics,
                   url_cache, attempt, gen_attempt, qi, is_valid, is_safe,
                   validate_calls, scan_calls, gen_calls, upload_calls,
                   cleanup_calls, handler, response_status>>

\* process_video, except block after the await: cleanup_failed_upload
\* returned and the exception is re-raised, or cleanup itself raised; the
\* retry wrapper records the exception and sleeps
CleanupReturn ==
    /\ pc = "cleanup"
    /\ cleanup_calls' = cleanup_calls + 1
    /\ \E outcome \in cleanup_failed_upload :
         last_exception' = IF outcome = "raised" THEN "cleanup" ELSE exc
    /\ exc' = "none"
    /\ pc' = "sleep"
    /\ UNCHANGED <<annotation_vars, repository_vars, utility_vars, file_content, monitor_result, monitor_seen,
                   error_msg, probe_calls, probe_result,
                   other, current, scan_result, log_failures,
                   unsafe_reported, status, variants,
                   processing_history,
                   processing_metrics, url_cache, attempt, gen_attempt, qi,
                   is_valid, is_safe, validate_calls, scan_calls, gen_calls,
                   upload_calls, handler, response_status>>

\* retry wrapper of process_video: the sleep ends; the next attempt, or
\* raise last_exception after max_attempts
RetryBackoff ==
    /\ pc = "sleep"
    /\ attempt' = attempt + 1
    /\ pc' = IF attempt + 1 < max_attempts THEN "begin" ELSE "raised"
    /\ UNCHANGED <<annotation_vars, repository_vars, utility_vars, file_content, monitor_result, monitor_seen,
                   error_msg, probe_calls, probe_result,
                   other, current, scan_result, log_failures,
                   unsafe_reported, status, variants,
                   processing_history,
                   processing_metrics, url_cache, gen_attempt, qi, is_valid,
                   is_safe, exc, last_exception, validate_calls, scan_calls,
                   gen_calls, upload_calls, cleanup_calls, handler,
                   response_status>>

----------------------------------------------------------------------------
(* Video.add_variant called on the model directly *)

VideoAddVariant ==
    /\ Len(variants) < MaxVariants
    /\ \E quality \in Qualities :
         /\ add_variant_accepts(quality)
         /\ variants' = add_variant(quality, cdn_url(quality))
         /\ processing_history' = add_variant_history(quality)
    /\ UNCHANGED <<annotation_vars, repository_vars, utility_vars, file_content, monitor_result, monitor_seen,
                   error_msg, probe_calls, probe_result,
                   other, current, scan_result, log_failures,
                   unsafe_reported, status, processing_metrics,
                   url_cache, pc,
                   attempt, gen_attempt, qi, is_valid, is_safe, exc,
                   last_exception, validate_calls, scan_calls, gen_calls,
                   upload_calls, cleanup_calls, handler, response_status>>

----------------------------------------------------------------------------
Next ==
    \/ HandlerStart
    \/ HandlerTimeout
    \/ HandlerFinish
    \/ BeginAttempt
    \/ ValidateMime
    \/ ProbeReturn
    \/ ScanSecurity
    \/ GenerateVariant
    \/ GenerateBackoff
    \/ UploadReturn
    \/ LogProcessingFailed
    \/ CleanupReturn
    \/ RetryBackoff

Spec == Init /\ [][Next]_vars

\* The Video model under direct add_variant calls
NextVideo == VideoAddVariant

SpecVideo == Init /\ [][NextVideo]_vars

----------------------------------------------------------------------------
(* Polling the progress of the video *)

\* Faulty variant of MonitorProcessing: a miss creates the record
MonitorProcessing_CreatesRecord ==
    /\ monitor_result' = monitor_report
    /\ monitor_seen' = processing_metrics
    /\ processing_metrics' =
          IF processing_metrics = "absent" THEN "started"
          ELSE processing_metrics
    /\ UNCHANGED <<annotation_vars, repository_vars, utility_vars, file_content, other, current, scan_result, log_failures,
                   unsafe_reported, status, variants, processing_history,
                   url_cache, pc, attempt, gen_attempt, qi, is_valid, is_safe,
                   exc, last_exception, validate_calls, scan_calls, gen_calls,
                   upload_calls, cleanup_calls, handler, response_status, error_msg, probe_calls, probe_result>>

\* monitor_processing(video_id), called at any moment by a polling client
MonitorProcessing ==
    /\ monitor_result' = monitor_report
    /\ monitor_seen' = processing_metrics
    /\ UNCHANGED <<annotation_vars, repository_vars, utility_vars, file_content, other, current, scan_result, log_failures,
                   unsafe_reported, status, variants, processing_history,
                   processing_metrics, url_cache, pc, attempt, gen_attempt, qi,
                   is_valid, is_safe, exc, last_exception, validate_calls,
                   scan_calls, gen_calls, upload_calls, cleanup_calls, handler,
                   response_status, error_msg, probe_calls, probe_result>>

\* The pipeline with a client polling the progress
NextPoll ==
    \/ Next
    \/ MonitorProcessing

SpecPoll == Init /\ [][NextPoll]_vars

----------------------------------------------------------------------------
(* AnnotationService and Video.add_annotation *)

\* create_drawing_annotation: one invocation of the body ends with this
\* exception ("none": it returns the annotation)
drawing_attempt(data_valid, timestamp, repo_outcome) ==
    IF ~data_valid THEN "ValueError"
    ELSE IF timestamp < 0 THEN "ValidationError"
    ELSE IF repo_outcome = "created" THEN "none"
    ELSE repo_outcome

\* create_drawing_annotation under tenacity's retry: the body is invoked
\* until it returns, at most stop_after_attempt times; after the last
\* failure the wrapper raises RetryError, whose cause is that failure.
\* The repository's create raises repo_error on the first repo_failures
\* invocations and returns the id on the later ones.
CreateDrawingAnnotation ==
    /\ \E user_id \in Users, timestamp \in Timestamps, data_valid \in BOOLEAN,
          repo_failures \in 0..stop_after_attempt,
          repo_error \in RepoCreateOutcomes \ {"created"},
          annotation_id \in AnnIds \ {a.id : a \in ann_store} :
         LET repo(k) == IF k <= repo_failures THEN repo_error ELSE "created"
             failure(k) == drawing_attempt(data_valid, timestamp, repo(k))
         IN  IF \E k \in 1..stop_after_attempt : failure(k) = "none"
             THEN /\ ann_store' = ann_store \cup
                        {[id |-> annotation_id, user_id |-> user_id,
                          type |-> "drawing", timestamp |-> timestamp]}
                  /\ ann_cache' = ann_cache \cup {annotation_id}
                  /\ ann_last' = Ended("create_drawing", "returned", "none",
                                       FALSE, FALSE)
             ELSE /\ ann_last' = Ended("create_drawing", "RetryError",
                                       failure(stop_after_attempt),
                                       FALSE, FALSE)
                  /\ UNCHANGED <<ann_store, ann_cache>>
    /\ UNCHANGED <<pipeline_vars, repository_vars, utility_vars, video_annotations>>

\* create_voice_over: file validation, upload, the annotation, the
\* repository; every failure is logged and raised as it is
CreateVoiceOver ==
    /\ \E user_id \in Users, timestamp \in Timestamps, file_valid \in BOOLEAN,
          upload_success \in BOOLEAN, repo_outcome \in RepoCreateOutcomes,
          annotation_id \in AnnIds \ {a.id : a \in ann_store} :
         LET failure ==
               IF ~file_valid THEN "ValueError"
               ELSE IF ~upload_success THEN "Exception"
               ELSE IF timestamp < 0 THEN "ValidationError"
               ELSE IF repo_outcome = "created" THEN "none"
               ELSE repo_outcome
         IN  IF failure = "none"
             THEN /\ ann_store' = ann_store \cup
                        {[id |-> annotation_id, user_id |-> user_id,
                          type |-> "voice-over", timestamp |-> timestamp]}
                  /\ ann_cache' = ann_cache \cup {annotation_id}
                  /\ ann_last' = Ended("create_voice_over", "returned", "none",
                                       FALSE, FALSE)
             ELSE /\ ann_last' = Ended("create_voice_over", failure, failure,
                                       FALSE, FALSE)
                  /\ UNCHANGED <<ann_store, ann_cache>>
    /\ UNCHANGED <<pipeline_vars, repository_vars, utility_vars, video_annotations>>

\* Faulty variant of DeleteAnnotation: the requesting user is not compared
\* with the annotation's
DeleteAnnotation_AnyUser ==
    /\ \E annotation_id \in AnnIds, user_id \in Users,
          repo_outcome \in {"deleted", "DatabaseError"} :
         LET found == {a \in ann_store : a.id = annotation_id}
         IN  IF found = {}
             THEN /\ ann_last' = DeleteEnded(annotation_id, user_id, "ValueError", "not found",
                                       FALSE, FALSE)
                  /\ UNCHANGED <<ann_store, ann_cache>>
             ELSE IF repo_outcome = "DatabaseError"
             THEN /\ ann_last' = DeleteEnded(annotation_id, user_id, "DatabaseError",
                                       "DatabaseError", TRUE, FALSE)
                  /\ UNCHANGED <<ann_store, ann_cache>>
             ELSE /\ ann_store' = ann_store \ found
                  /\ ann_cache' = ann_cache \ {annotation_id}
                  /\ ann_last' =
                       DeleteEnded(annotation_id, user_id, "True", "none", TRUE,
                             \E a \in found : a.type = "voice-over")
    /\ UNCHANGED <<pipeline_vars, repository_vars, utility_vars, video_annotations>>

\* delete_annotation: get_by_id, the user test, repository.delete, then the
\* cache entry and, for a voice-over, the delete_video call
DeleteAnnotation ==
    /\ \E annotation_id \in AnnIds, user_id \in Users,
          repo_outcome \in {"deleted", "DatabaseError"} :
         LET found == {a \in ann_store : a.id = annotation_id}
         IN  IF found = {}
             THEN /\ ann_last' = DeleteEnded(annotation_id, user_id, "ValueError", "not found",
                                       FALSE, FALSE)
                  /\ UNCHANGED <<ann_store, ann_cache>>
             ELSE IF \E a \in found : a.user_id # user_id
             THEN /\ ann_last' = DeleteEnded(annotation_id, user_id, "ValueError", "Unauthorized",
                                       FALSE, FALSE)
                  /\ UNCHANGED <<ann_store, ann_cache>>
             ELSE IF repo_outcome = "DatabaseError"
             THEN /\ ann_last' = DeleteEnded(annotation_id, user_id, "DatabaseError",
                                       "DatabaseError", TRUE, FALSE)
                  /\ UNCHANGED <<ann_store, ann_cache>>
             ELSE /\ ann_store' = ann_store \ found
                  /\ ann_cache' = ann_cache \ {annotation_id}
                  /\ ann_last' =
                       DeleteEnded(annotation_id, user_id, "True", "none", TRUE,
                             \E a \in found : a.type = "voice-over")
    /\ UNCHANGED <<pipeline_vars, repository_vars, utility_vars, video_annotations>>

\* Video.add_annotation: the timestamp test, then the append
VideoAddAnnotation ==
    /\ Len(video_annotations) < MaxAnnotations
    /\ \E timestamp \in Timestamps :
         IF timestamp < 0 \/ timestamp > VideoDuration
         THEN /\ ann_last' = Ended("add_annotation", "ValueError",
                                   "Invalid timestamp", FALSE, FALSE)
              /\ UNCHANGED video_annotations
         ELSE /\ video_annotations' = Append(video_annotations, timestamp)
              /\ ann_last' = Ended("add_annotation", "returned", "none",
                                   FALSE, FALSE)
    /\ UNCHANGED <<pipeline_vars, repository_vars, utility_vars, ann_store, ann_cache>>

NextAnnotation ==
    \/ CreateDrawingAnnotation
    \/ CreateVoiceOver
    \/ DeleteAnnotation
    \/ VideoAddAnnotation

SpecAnnotation == Init /\ [][NextAnnotation]_vars

----------------------------------------------------------------------------
(* VideoRepository *)

\* get_by_id: the cached document, or the stored one, which is cached
RepoGetById ==
    /\ repo_cache' = IF repo_cache # {} THEN repo_cache ELSE {db_video}
    /\ UNCHANGED <<pipeline_vars, annotation_vars, utility_vars, db_video>>

\* update_status: $set of the status, then the cache entry is dropped
RepoUpdateStatus ==
    /\ \E new_status \in VIDEO_STATUS :
         db_video' = repo_update_status(db_video, new_status)
    /\ repo_cache' = {}
    /\ UNCHANGED <<pipeline_vars, annotation_vars, utility_vars>>

\* add_variant: $push of the variant, then the cache entry is dropped
RepoAddVariant ==
    /\ Len(db_video.variants) < MaxVariants
    /\ \E quality \in Qualities :
         db_video' = repo_add_variant(db_video, quality)
    /\ repo_cache' = {}
    /\ UNCHANGED <<pipeline_vars, annotation_vars, utility_vars>>

NextRepository ==
    \/ RepoGetById
    \/ RepoUpdateStatus
    \/ RepoAddVariant

SpecRepository == Init /\ [][NextRepository]_vars

----------------------------------------------------------------------------
(* The retry decorator *)

RECURSIVE Power(_, _)
\* base ** exponent
Power(base, exponent) ==
    IF exponent = 0 THEN 1 ELSE base * Power(base, exponent - 1)

\* Faulty variant of retry_delay: the delay grows by the factor, not by
\* its power
retry_delay_linear(config, attempt_no) ==
    config.initial_delay * (config.backoff_factor * attempt_no)

\* retry wrapper: delay = initial_delay * (backoff_factor ** attempt)
retry_delay(config, attempt_no) ==
    config.initial_delay * Power(config.backoff_factor, attempt_no)

\* A function decorated with retry(config) is called: the wrapper sets
\* last_exception = None and enters its for loop
RetryCall ==
    /\ retry_pc = "idle"
    /\ \E config \in RetryConfigs : retry_config' = config
    /\ retry_pc' = "loop"
    /\ retry_attempt' = 0
    /\ retry_last' = "None"
    /\ UNCHANGED <<pipeline_vars, annotation_vars, repository_vars, metrics_vars,
                   repo_task_vars, storage_vars,
                   retry_outcomes, retry_slept, retry_result>>

\* retry wrapper, loop body: the awaited invocation returns, and the
\* wrapper returns its result, or it raises, and the wrapper keeps the
\* exception and sleeps for the delay of this attempt
RetryInvoke ==
    /\ retry_pc = "loop"
    /\ \E outcome \in InvocationOutcomes :
         /\ retry_outcomes' = Append(retry_outcomes, outcome)
         /\ IF outcome = "returned"
            THEN /\ retry_pc' = "returned"
                 /\ retry_result' =
                      [kind |-> "returned", exception |-> "None",
                       invocation |-> Len(retry_outcomes) + 1]
                 /\ UNCHANGED <<retry_last, retry_slept>>
            ELSE /\ retry_pc' = "sleeping"
                 /\ retry_last' = outcome
                 /\ retry_slept' =
                      Append(retry_slept,
                             retry_delay(retry_config, retry_attempt))
                 /\ UNCHANGED retry_result
    /\ UNCHANGED <<pipeline_vars, annotation_vars, repository_vars, metrics_vars,
                   repo_task_vars, storage_vars,
                   retry_config, retry_attempt>>

\* Faulty variant of RetrySleepEnds: the loop runs once more than
\* max_attempts
RetrySleepEnds_OneMore ==
    /\ retry_pc = "sleeping"
    /\ retry_attempt' = retry_attempt + 1
    /\ IF retry_attempt + 1 <= retry_config.max_attempts
       THEN /\ retry_pc' = "loop"
            /\ UNCHANGED retry_result
       ELSE /\ retry_pc' = "raised"
            /\ retry_result' =
                 [kind |-> "raised", exception |-> retry_last,
                  invocation |-> 0]
    /\ UNCHANGED <<pipeline_vars, annotation_vars, repository_vars, metrics_vars,
                   repo_task_vars, storage_vars,
                   retry_config, retry_outcomes, retry_last, retry_slept>>

\* retry wrapper: the sleep ends; the for loop takes the next attempt or,
\* range(max_attempts) exhausted, the wrapper raises last_exception
RetrySleepEnds ==
    /\ retry_pc = "sleeping"
    /\ retry_attempt' = retry_attempt + 1
    /\ IF retry_attempt + 1 < retry_config.max_attempts
       THEN /\ retry_pc' = "loop"
            /\ UNCHANGED retry_result
       ELSE /\ retry_pc' = "raised"
            /\ retry_result' =
                 [kind |-> "raised", exception |-> retry_last,
                  invocation |-> 0]
    /\ UNCHANGED <<pipeline_vars, annotation_vars, repository_vars, metrics_vars,
                   repo_task_vars, storage_vars,
                   retry_config, retry_outcomes, retry_last, retry_slept>>

NextRetry ==
    \/ RetryCall
    \/ RetryInvoke
    \/ RetrySleepEnds

SpecRetry == Init /\ [][NextRetry]_vars

----------------------------------------------------------------------------
(* VideoMetrics: the active-jobs gauge *)

\* track_processing_duration, entry: the quality test, then, under the
\* lock, the gauge of the quality is incremented; the block's body follows
EnterTracking ==
    /\ \E quality \in MetricQualities :
         IF quality \notin valid_qualities
         THEN /\ track_last' = "ValueError"
              /\ UNCHANGED <<active_jobs, tracking>>
         ELSE /\ tracking[quality] < MaxTracking
              /\ active_jobs[quality] < MaxActiveJobs
              /\ active_jobs' = [active_jobs EXCEPT ![quality] = @ + 1]
              /\ tracking' = [tracking EXCEPT ![quality] = @ + 1]
              /\ track_last' = "entered"
    /\ UNCHANGED <<pipeline_vars, annotation_vars, repository_vars,
                   repo_task_vars, storage_vars, retry_vars>>

\* track_processing_duration, finally clause: the block's body has ended
\* and, under the lock, the gauge of the quality is decremented
LeaveTracking ==
    /\ \E quality \in valid_qualities :
         /\ tracking[quality] > 0
         /\ active_jobs' = [active_jobs EXCEPT ![quality] = @ - 1]
         /\ tracking' = [tracking EXCEPT ![quality] = @ - 1]
    /\ track_last' = "left"
    /\ UNCHANGED <<pipeline_vars, annotation_vars, repository_vars,
                   repo_task_vars, storage_vars, retry_vars>>

\* track_active_jobs(change, quality): the quality test, then, under the
\* lock, the bounds test on the gauge's value and the increment by change
TrackActiveJobs ==
    /\ \E change \in Changes, quality \in MetricQualities :
         IF quality \notin valid_qualities
         THEN /\ track_last' = "ValueError"
              /\ UNCHANGED active_jobs
         ELSE IF active_jobs[quality] + change < 0
         THEN /\ track_last' = "ValueError"
              /\ UNCHANGED active_jobs
         ELSE /\ active_jobs[quality] + change <= MaxActiveJobs
              /\ active_jobs' = [active_jobs EXCEPT ![quality] = @ + change]
              /\ track_last' = "updated"
    /\ UNCHANGED <<pipeline_vars, annotation_vars, repository_vars,
                   repo_task_vars, storage_vars, retry_vars, tracking>>

NextMetrics ==
    \/ EnterTracking
    \/ LeaveTracking
    \/ TrackActiveJobs

SpecMetrics == Init /\ [][NextMetrics]_vars

----------------------------------------------------------------------------
(* VideoRepository: get_by_id calls interleaved with a writer *)

\* get_by_id begins: a cached document is returned at once; otherwise
\* find_one is awaited
GetStart ==
    /\ \E r \in Readers :
         /\ get_tasks[r].pc \in {"idle", "returned"}
         /\ get_tasks' =
              [get_tasks EXCEPT ![r] =
                 IF repo_cache # {}
                 THEN [pc |-> "returned", doc |-> repo_cache,
                       fresh |-> write_pc = "idle"]
                 ELSE [pc |-> "finding", doc |-> {},
                       fresh |-> write_pc = "idle"]]
    /\ UNCHANGED <<pipeline_vars, annotation_vars, repository_vars,
                   storage_vars, retry_vars, metrics_vars, write_pc, write_count>>

\* get_by_id, find_one: the database reads the stored document
GetFind ==
    /\ \E r \in Readers :
         /\ get_tasks[r].pc = "finding"
         /\ get_tasks' = [get_tasks EXCEPT ![r].pc = "found",
                                           ![r].doc = {db_video}]
    /\ UNCHANGED <<pipeline_vars, annotation_vars, repository_vars,
                   storage_vars, retry_vars, metrics_vars, write_pc, write_count>>

\* get_by_id resumes behind find_one: the document in hand is written to
\* the cache and returned
GetFill ==
    /\ \E r \in Readers :
         /\ get_tasks[r].pc = "found"
         /\ repo_cache' = get_tasks[r].doc
         /\ get_tasks' = [get_tasks EXCEPT ![r].pc = "returned"]
    /\ UNCHANGED <<pipeline_vars, annotation_vars, retry_vars, metrics_vars,
                   storage_vars,
                   db_video, write_pc, write_count>>

\* update_status or add_variant, update_one: the database applies the
\* write.  Only writes that change the document are taken, so that the
\* document before the write differs from the one behind it
WriteApply ==
    /\ write_pc = "idle"
    /\ write_count < MaxWrites
    /\ write_count' = write_count + 1
    /\ \/ \E new_status \in VIDEO_STATUS \ {db_video.status} :
            db_video' = repo_update_status(db_video, new_status)
       \/ /\ Len(db_video.variants) < MaxVariants
          /\ \E quality \in ConfiguredQualities :
               db_video' = repo_add_variant(db_video, quality)
    /\ write_pc' = "applied"
    /\ get_tasks' = [r \in Readers |-> [get_tasks[r] EXCEPT !.fresh = FALSE]]
    /\ UNCHANGED <<pipeline_vars, annotation_vars, retry_vars, metrics_vars,
                   storage_vars,
                   repo_cache>>

\* update_status or add_variant resumes behind update_one: the cache
\* entry of the video is dropped and the call completes
WriteComplete ==
    /\ write_pc = "applied"
    /\ repo_cache' = {}
    /\ write_pc' = "idle"
    /\ UNCHANGED <<pipeline_vars, annotation_vars, retry_vars, metrics_vars,
                   storage_vars,
                   db_video, get_tasks, write_count>>

NextRepositoryTasks ==
    \/ GetStart
    \/ GetFind
    \/ GetFill
    \/ WriteApply
    \/ WriteComplete

SpecRepositoryTasks == Init /\ [][NextRepositoryTasks]_vars

----------------------------------------------------------------------------
(* StorageService.upload_video and upload_variant *)

\* The storage key of the original file and of a variant
video_key == "videos/v/original.mp4"

variant_key(quality) == "videos/v/variants/" \o quality \o ".mp4"

\* The CDN URL of a storage key
key_url(key) == "https://cdn/" \o key

\* The except clause of both upload functions: the error is logged and
\* (False, error_msg, None) is returned; when the logger raises, its
\* exception leaves the function
upload_failed(key, message, log_raised) ==
    IF log_raised THEN UploadRaised(key)
    ELSE UploadReturned(key, FALSE, message, "None")

\* upload_video: the start log, put_object under the loop over
\* range(_max_retries) with a warning behind each ClientError but the last,
\* then the cache entry, the completion log and the return.  put_object
\* raises ClientError on its first put_failures invocations
UploadVideo ==
    /\ \E max_retries \in 1..MaxUploadRetries,
          put_failures \in 0..MaxUploadRetries,
          start_log_raised \in BOOLEAN, warning_log_raised \in BOOLEAN,
          done_log_raised \in BOOLEAN, error_log_raised \in BOOLEAN :
         LET failed(msg) == upload_failed(video_key, msg, error_log_raised)
         IN  IF start_log_raised
             THEN /\ upload_last' = failed("Video upload failed")
                  /\ UNCHANGED <<stored_keys, cached_keys>>
             ELSE IF put_failures >= max_retries
                     \/ (put_failures > 0 /\ warning_log_raised)
             THEN /\ upload_last' = failed("Video upload failed")
                  /\ UNCHANGED <<stored_keys, cached_keys>>
             ELSE /\ stored_keys' = stored_keys \cup {video_key}
                  /\ cached_keys' = cached_keys \cup {video_key}
                  /\ upload_last' =
                       IF done_log_raised
                       THEN failed("Video upload failed")
                       ELSE UploadReturned(video_key, TRUE, "",
                                           key_url(video_key))
    /\ UNCHANGED <<pipeline_vars, annotation_vars, repository_vars,
                   retry_vars, metrics_vars, repo_task_vars>>

\* upload_variant: put_object, the cache entry, the completion log and the
\* return; any exception on the way goes to the except clause
UploadVariant ==
    /\ \E quality \in ConfiguredQualities, put_raised \in BOOLEAN,
          done_log_raised \in BOOLEAN, error_log_raised \in BOOLEAN :
         LET key == variant_key(quality)
             failed == upload_failed(key, "Variant upload failed",
                                     error_log_raised)
         IN  IF put_raised
             THEN /\ upload_last' = failed
                  /\ UNCHANGED <<stored_keys, cached_keys>>
             ELSE /\ stored_keys' = stored_keys \cup {key}
                  /\ cached_keys' = cached_keys \cup {key}
                  /\ upload_last' =
                       IF done_log_raised
                       THEN failed
                       ELSE UploadReturned(key, TRUE, "", key_url(key))
    /\ UNCHANGED <<pipeline_vars, annotation_vars, repository_vars,
                   retry_vars, metrics_vars, repo_task_vars>>

NextStorage ==
    \/ UploadVideo
    \/ UploadVariant

SpecStorage == Init /\ [][NextStorage]_vars

----------------------------------------------------------------------------
(* Two process_video calls on the same video *)

\* A caller other than upload_video invokes process_video on the service
FirstCall ==
    /\ handler = "init"
    /\ current = 1
    /\ pc = "idle"
    /\ pc' = "begin"
    /\ UNCHANGED <<annotation_vars, repository_vars, utility_vars, file_content, monitor_result, monitor_seen,
                   error_msg, probe_calls, probe_result,
                   other, current, scan_result, log_failures,
                   unsafe_reported, status, variants, processing_history,
                   processing_metrics, url_cache, attempt, gen_attempt, qi,
                   is_valid, is_safe, exc, last_exception, validate_calls,
                   scan_calls, gen_calls, upload_calls, cleanup_calls, handler,
                   response_status>>

\* A second call of process_video with the video the first call is working
\* on.  __init__ sets up _processing_queue but process_video never consults
\* it, nor any lock: nothing in the code guards the call
SecondCall ==
    /\ current = 1
    /\ pc # "idle"
    /\ other.pc = "idle"
    /\ other' = [other EXCEPT !.pc = "begin"]
    /\ UNCHANGED <<annotation_vars, repository_vars, utility_vars, file_content, monitor_result, monitor_seen,
                   error_msg, probe_calls, probe_result,
                   scan_result, log_failures, current,
                   unsafe_reported, status, variants, processing_history,
                   processing_metrics, url_cache, pc, attempt, gen_attempt,
                   qi, is_valid, is_safe, exc, last_exception, validate_calls,
                   scan_calls, gen_calls, upload_calls, cleanup_calls, handler,
                   response_status>>

\* The event loop resumes the other call: the one that ran is suspended in
\* an await, not yet started or over
SwitchTask ==
    /\ pc \in SuspensionPoints \cup {"begin", "done", "raised", "cancelled"}
    /\ other.pc \in SuspensionPoints \cup {"begin"}
    /\ other' = Locals
    /\ current' = 3 - current
    /\ pc' = other.pc
    /\ attempt' = other.attempt
    /\ gen_attempt' = other.gen_attempt
    /\ qi' = other.qi
    /\ is_valid' = other.is_valid
    /\ is_safe' = other.is_safe
    /\ exc' = other.exc
    /\ last_exception' = other.last_exception
    /\ error_msg' = other.error_msg
    /\ probe_result' = other.probe_result
    /\ UNCHANGED <<annotation_vars, repository_vars, utility_vars, file_content, monitor_result, monitor_seen,
                   probe_calls,
                   scan_result, log_failures, unsafe_reported,
                   status, variants, processing_history, processing_metrics,
                   url_cache, validate_calls, scan_calls, gen_calls,
                   upload_calls, cleanup_calls, handler, response_status>>

\* Attempts of each call that the two-call specification follows
MaxTwoAttempts == 1

NextTwo ==
    \/ FirstCall
    \/ SecondCall
    \/ SwitchTask
    \/ attempt < MaxTwoAttempts /\ BeginAttempt
    \/ ValidateMime
    \/ ProbeReturn
    \/ ScanSecurity
    \/ GenerateVariant
    \/ GenerateBackoff
    \/ UploadReturn
    \/ LogProcessingFailed
    \/ CleanupReturn
    \/ RetryBackoff

SpecTwo == Init /\ [][NextTwo]_vars

\* A process_video call is in flight: started and not over
InFlight(p) == p \notin {"idle", "done", "raised", "cancelled"}

TaskEnded == pc \in {"done", "raised", "cancelled"}

----------------------------------------------------------------------------
(* Properties *)

\* Both gates returned ok in the current attempt, or did in an earlier one
\* (the transcoder is invoked only behind them)
PassedGates == (is_valid /\ is_safe) \/ gen_calls[VARIANT_CONFIGS[1]] > 0

\* variants holds exactly one entry per configured quality, each with a url
OnePerProfile ==
    /\ Len(variants) = Len(VARIANT_CONFIGS)
    /\ \A q \in ConfiguredQualities :
         \E i \in 1..Len(variants) : variants[i].quality = q
    /\ \A i \in 1..Len(variants) : variants[i].url # ""

\* C1: terminal states are absorbing: once the status is ready or failed, no
\* later step of process_video or of its retry wrapper changes it.
C1_TerminalAbsorbing == [][(status \in Terminal) => (status' = status)]_vars

\* C2: a validator or scanner failure is never retried: each gate is invoked
\* at most once per process_video call.
C2_GatesInvokedOnce == validate_calls <= 1 /\ scan_calls <= 1

\* C3: gate ordering: scan_security is invoked only after validate_format
\* returned ok, generate_variant and upload_variant only after scan_security
\* returned safe, and for an input of unsupported MIME type the scanner and
\* the transcoder are never invoked.
C3_GateOrdering ==
    [][ /\ (scan_calls' # scan_calls => is_valid)
        /\ (gen_calls' # gen_calls \/ upload_calls' # upload_calls
               => is_valid /\ is_safe)
        /\ (file_content.mime \notin SUPPORTED_MIME_TYPES
               => /\ scan_calls' = 0
                  /\ gen_calls' = ZeroCalls
                  /\ upload_calls' = ZeroCalls) ]_vars

\* C3 witness: behind both gates the transcoder ran and its output was
\* handed to the storage
C3_Witness ==
    /\ is_valid
    /\ is_safe
    /\ gen_calls[VARIANT_CONFIGS[1]] >= 1
    /\ upload_calls[VARIANT_CONFIGS[1]] >= 1

\* C4: when scan_security reported unsafe, the orchestration ends with
\* status failed and an empty variants list.
C4_UnsafeEndsFailed ==
    (TaskEnded /\ unsafe_reported) => (status = "failed" /\ variants = <<>>)

C6_QualityUnique ==
    /\ \A i, j \in 1..Len(variants) :
         i # j => variants[i].quality # variants[j].quality
    /\ \A i \in 1..Len(variants) : variants[i].quality \in ConfiguredQualities

\* C7: per process_video call the transcode+upload unit of a quality is
\* attempted at most max_attempts times.
C7_UnitAttemptsBounded ==
    \A q \in ConfiguredQualities :
        gen_calls[q] <= max_attempts /\ upload_calls[q] <= max_attempts

\* C8: a transcode or upload failure is retried inside its own unit: after
\* one, the retry re-runs neither validate_format nor scan_security.
C8_RetryInsideUnit ==
    [][(last_exception \in {"transcode", "upload"})
         => (validate_calls' = validate_calls /\ scan_calls' = scan_calls)]_vars

\* C9: when the handler's bounded wait elapses, the process_video task is
\* not cancelled: it keeps running until the status is ready or failed.
C9_TimeoutKeepsTask ==
    handler = "timed_out"
        => /\ pc # "cancelled"
           /\ (status \in Terminal \/ ENABLED Next)

\* C10: every orchestration that was started leaves the video in a terminal
\* status: when the task is over the status is ready or failed.
C10_EndsTerminal == TaskEnded => status \in Terminal

\* C11: at most one orchestration per video id runs at a time: a second
\* process_video call for a video whose orchestration is still in flight is
\* excluded, so two calls are never in flight together.
C11_SingleOrchestration == ~(InFlight(pc) /\ InFlight(other.pc))

\* C13: a failure of cleanup_failed_upload is never escalated: when
\* process_video raises to its caller, the error is the pipeline's own and
\* not the one cleanup raised.
C13_CleanupNotEscalated == pc = "raised" => last_exception # "cleanup"

C15_LogFailureHarmless ==
    [][(log_failures' > log_failures)
         => /\ (scan_calls' > scan_calls /\ scan_result' = "clean") => is_safe'
            /\ last_exception' # "log"]_vars

\* Stages that the code records in processing_history for routine events
RoutineStages ==
    {"upload_started", "file_validation"}
        \cup {variant_added_key(q) : q \in Qualities}

\* C16: whenever the status is failed, processing_history holds an entry
\* that records the failing stage.
C16_FailureRecorded ==
    status = "failed"
        => \E k \in DOMAIN processing_history : k \notin RoutineStages

\* monitor_processing reports the terminal outcome the video ended with
MonitorMatches ==
    \/ status = "ready" /\ monitor_processing = "completed"
    \/ status = "failed" /\ monitor_processing = "failed"

\* C18: after the handler abandoned its wait, monitor_processing reports
\* processing while the orchestration is in flight and, once it is over, a
\* terminal outcome that matches the video's final status.
C18_MonitorFollowsTask ==
    handler = "timed_out"
        => IF TaskEnded
           THEN MonitorMatches
           ELSE monitor_processing = "processing"

\* C19: scan_security fails closed: it reports safe only when the scan
\* completed and found no malware.
C19_ScanFailsClosed == is_safe => scan_result = "clean"

\* C20: whenever process_video raises to its caller, the status is failed
\* and cleanup_failed_upload has been called for the video.
C20_FailureCleansUp ==
    pc = "raised" => (status = "failed" /\ cleanup_calls >= 1)

\* C21: the upload handler answers with a response that carries the video's
\* status in every outcome of processing: once the handler is over for a
\* video whose processing was started, the status it returned is the
\* video's status.
C21_ResponseCarriesStatus ==
    (handler \notin {"init", "waiting"} /\ pc # "idle")
        => response_status = status

\* C22: monitor_processing is a pure read: a call changes neither the
\* progress record nor the video, and a call made while the progress record
\* is as it was at the previous call returns what that call returned.
C22_MonitorPureRead ==
    [][(monitor_seen' # monitor_seen \/ monitor_result' # monitor_result)
         => /\ UNCHANGED <<processing_metrics, status, variants,
                           processing_history, url_cache, pc>>
            /\ (monitor_seen = processing_metrics
                  => monitor_result' = monitor_result)]_vars

\* C22 witness: the progress of a video in processing was polled while the
\* upload of a variant was awaited
C22_Witness ==
    /\ monitor_seen = "started"
    /\ monitor_result.status = "processing"
    /\ processing_metrics = "started"
    /\ pc = "upload"

C24_HistoryAppendOnly ==
    [][\A k \in DOMAIN processing_history :
          /\ k \in DOMAIN processing_history'
          /\ processing_history'[k] = processing_history[k]]_vars

\* C25: validate_format rejects the empty byte buffer with an empty-input
\* reason, before any probe subprocess, scan or storage call is made.
C25_EmptyRejectedFirst ==
    (IsEmpty(file_content) /\ validate_calls > 0)
        => /\ ~is_valid
           /\ error_msg = "Empty file content"
           /\ probe_calls = 0
           /\ scan_calls = 0
           /\ upload_calls = ZeroCalls

----------------------------------------------------------------------------
(* delete_annotation *)

----------------------------------------------------------------------------
(* Annotation timestamps *)

\* C28: every created annotation, through Video.add_annotation or through
\* the AnnotationService create operations, has a timestamp from 0 to the
\* duration of its video
C28_TimestampWithinDuration ==
    /\ \A a \in ann_store : 0 <= a.timestamp /\ a.timestamp <= VideoDuration
    /\ \A i \in 1..Len(video_annotations) :
         0 <= video_annotations[i] /\ video_annotations[i] <= VideoDuration

----------------------------------------------------------------------------
(* create_drawing_annotation when the repository fails *)

\* C29: a create_drawing_annotation call that ends because the
\* repository's create failed (timeout or database error) ends with that
\* same error and adds no entry to the service cache
C29_RepositoryErrorPropagates ==
    [][(/\ ann_last'.op = "create_drawing"
        /\ ann_last'.cause \in RepoCreateOutcomes \ {"created"})
         => /\ ann_last'.outcome = ann_last'.cause
            /\ ann_cache' = ann_cache]_vars

----------------------------------------------------------------------------
(* Repeated repository writes *)

\* C30: applying the same add_variant write twice leaves the stored video
\* with the same variants as applying it once, and applying the same
\* update_status twice leaves the same status as applying it once
C30_WritesIdempotent ==
    /\ \A quality \in Qualities :
         repo_add_variant(repo_add_variant(db_video, quality), quality).variants
           = repo_add_variant(db_video, quality).variants
    /\ \A new_status \in VIDEO_STATUS :
         repo_update_status(repo_update_status(db_video, new_status),
                            new_status).status
           = repo_update_status(db_video, new_status).status

----------------------------------------------------------------------------
(* The per-quality units of one orchestration *)

\* The qualities whose transcode+upload unit is in flight: begun and not
\* yet ended.  process_video awaits generate_variant and upload_variant
\* inside its for loop, one quality behind the other
InFlightUnits ==
    IF pc \in {"generate", "gen_sleep", "upload"}
    THEN {VARIANT_CONFIGS[qi]}
    ELSE {}

\* C31: behind the gates the units run concurrently: while a unit is in
\* flight and a further quality is still to be produced, a second unit is
\* in flight as well
C31_UnitsConcurrent ==
    (InFlightUnits # {} /\ qi < Len(VARIANT_CONFIGS))
        => Cardinality(InFlightUnits) >= 2

----------------------------------------------------------------------------
(* The retry decorator: invocations and delays *)

\* The invocations of the wrapped function that raised
FailedInvocations ==
    {i \in 1..Len(retry_outcomes) : retry_outcomes[i] # "returned"}

\* C32: a function wrapped by retry(config) is invoked at most
\* max_attempts times; no invocation follows one that returned, and the
\* wrapper returns the result of that invocation; when all max_attempts
\* invocations raised, the wrapper raises the exception of the last one
C32_RetryWrapper ==
    /\ Len(retry_outcomes) <= retry_config.max_attempts
    /\ \A i \in 1..Len(retry_outcomes) - 1 : i \in FailedInvocations
    /\ retry_pc = "returned" =>
         /\ retry_outcomes[Len(retry_outcomes)] = "returned"
         /\ retry_result.kind = "returned"
         /\ retry_result.invocation = Len(retry_outcomes)
    /\ retry_pc = "raised" =>
         /\ Cardinality(FailedInvocations) = retry_config.max_attempts
         /\ retry_result.kind = "raised"
         /\ retry_result.exception = retry_outcomes[Len(retry_outcomes)]
    /\ Cardinality(FailedInvocations) = retry_config.max_attempts =>
         retry_pc \in {"sleeping", "raised"}

\* Three invocations raised, the last one another exception than the one
\* before, and the wrapper has raised
C32_Witness ==
    /\ retry_pc = "raised"
    /\ Len(retry_outcomes) = 3
    /\ retry_outcomes[2] # retry_outcomes[3]

\* C33: the delay slept after the k-th failed attempt (k = 0, 1, ...) is
\* initial_delay * backoff_factor^k, which is 1, 2, 4 with RETRY_CONFIG,
\* and a sleep follows every failed attempt, the last one included
C33_ExponentialBackoff ==
    /\ Len(retry_slept) = Cardinality(FailedInvocations)
    /\ \A k \in 0..Len(retry_slept) - 1 :
         /\ k = 0 => retry_slept[k + 1] = retry_config.initial_delay
         /\ k > 0 => retry_slept[k + 1]
                        = retry_slept[k] * retry_config.backoff_factor
    /\ retry_config = RETRY_CONFIG =>
         retry_slept = SubSeq(<<1, 2, 4>>, 1, Len(retry_slept))
    /\ retry_pc = "raised" => Len(retry_slept) = retry_config.max_attempts

\* With RETRY_CONFIG all three attempts failed: the wrapper slept 1, 2 and
\* 4 and has raised
C33_Witness ==
    /\ retry_config = RETRY_CONFIG
    /\ retry_pc = "raised"
    /\ retry_slept = <<1, 2, 4>>

----------------------------------------------------------------------------
(* The active-jobs gauge *)

\* C34: the active-jobs gauge of a quality is never negative, under any
\* interleaving of track_active_jobs and track_processing_duration
C34_GaugeNeverNegative == \A quality \in valid_qualities : active_jobs[quality] >= 0

----------------------------------------------------------------------------
(* VideoRepository: what get_by_id returns behind a write *)

\* C35: once update_status or add_variant has completed, a get_by_id that
\* begins afterwards returns the stored document, not the one from before
\* the write, whatever other get_by_id calls are in progress
C35_CacheCoherent ==
    \A r \in Readers :
        (get_tasks[r].pc = "returned" /\ get_tasks[r].fresh)
            => get_tasks[r].doc = {db_video}

----------------------------------------------------------------------------
(* The progress record *)

\* C36: the progress record read by monitor_processing tracks the
\* orchestration: while an attempt is scanning or producing variants,
\* variants_completed is the number of qualities whose variant was added
\* and current_stage names the stage in progress
C36_ProgressTracked ==
    (pc \in {"validate", "probe", "scan", "generate", "gen_sleep", "upload"})
        => /\ monitor_report.variants_completed = Len(variants)
           /\ monitor_report.current_stage = status

----------------------------------------------------------------------------
(* What the upload functions return *)

\* C37: upload_video and upload_variant never raise; each returns success
\* with an empty error and a non-empty url, or failure with an error
\* message and no url; and the URL cache gains an entry for a storage key
\* only in a call that returns success
C37_UploadNeverRaises ==
    [][/\ upload_last'.outcome # "none" =>
            /\ upload_last'.outcome = "returned"
            /\ \/ /\ upload_last'.success
                  /\ upload_last'.error = ""
                  /\ upload_last'.url \notin {"", "None"}
               \/ /\ ~upload_last'.success
                  /\ upload_last'.error # ""
                  /\ upload_last'.url = "None"
       /\ cached_keys' # cached_keys =>
            (upload_last'.success /\ upload_last'.key \in cached_keys')
      ]_vars

----------------------------------------------------------------------------
(* How a process_video call ends *)

\* C38: a process_video call that returned, returned True with the status
\* ready; a call that ended otherwise ended by raising, after the status
\* was set to failed
C38_TrueOnlyWhenReady ==
    /\ pc = "done" => status = "ready"
    /\ (TaskEnded /\ pc # "done") => status = "failed"

----------------------------------------------------------------------------
(* not_found *)

\* The body of process_video has begun to run in this process
OrchestrationStarted == attempt > 0 \/ pc \notin {"idle", "begin"}

\* C39: monitor_processing returns not_found exactly while no
\* orchestration of the video has started; once process_video has started,
\* it does not return not_found again, whatever became of the orchestration
C39_NotFoundIffNeverStarted ==
    /\ monitor_processing = "not_found" <=> ~OrchestrationStarted
    /\ monitor_seen # "none" =>
         (monitor_result.status = "not_found" <=> monitor_seen = "absent")
    /\ (monitor_seen \notin {"none", "absent"}) => OrchestrationStarted

\* The orchestration was retried to the end and has raised, and the poll
\* made behind it was answered with processing, not with not_found
C39_Witness ==
    /\ pc = "raised"
    /\ attempt = max_attempts
    /\ monitor_seen = processing_metrics
    /\ monitor_result.status = "processing"

====
